---- MODULE Spec2Model ----
(***************************************************************************)
(* firestore-batcher: the adaptive batch controller of src/src/index.ts    *)
(* (the first, current version of the module, lines 1-225).                *)
(*                                                                         *)
(* A batcher owns a queue of write operations, a batch size and a counter  *)
(* of processed operations.  commit() drains the queue in chunks of at     *)
(* most batchSize operations; a "Transaction too big" reply halves the     *)
(* batch size and retries, a successful reply grows it by 1.5 (capped at   *)
(* 500).  all() pages through a query and commits one operation per        *)
(* document.  The store (batch commit, query) is the environment.          *)
(***************************************************************************)
EXTENDS Integers, Sequences, FiniteSets

VARIABLES
    operations,           \* index.ts:156  the queue of pending operations
    operationsProcessed,  \* index.ts:153
    batchSize,            \* index.ts:154
    hasCallback,          \* index.ts:151  options?.onBatchCommited is set
    callbackStats,        \* the stats the last step handed to onBatchCommited
    statsResult,          \* what the stats() call of the last step returned
    pc,                   \* per invocation: where the async function stands
    kind,                 \* per invocation: "commit" or "all"
    opsToCommit,          \* index.ts:176  the chunk of the invocation's batch
    error,                \* the error last caught by the invocation
    queryLimit,           \* index.ts:209  the limit of limitedQuery
    builder,              \* the operation name operationBuilder produces
    docs,                 \* store: the documents the query matches, in order
    threshold,            \* store: longest chunk that is never "too big"
    enqueued,             \* history: every operation ever pushed, in order
    committed             \* history: every operation of a committed batch

vars == <<operations, operationsProcessed, batchSize, hasCallback,
          callbackStats, statsResult, pc, kind, opsToCommit, error,
          queryLimit, builder, docs, threshold, enqueued, committed>>

----------------------------------------------------------------------------
(* Bounds of the model *)

\* operations pushed over the life of a batcher
MaxOps == 3
\* documents the query matches at the start
MaxDocs == 2
\* concurrent invocations of commit()/all()
MaxCalls == 2
\* largest store threshold of the threshold-store specification
MaxThreshold == 2
\* full pages of MaxSize documents in the drain specification
MaxDrainRounds == 2
\* operations pushed in the bulk specification
MaxBulkOps == 1200
MaxLoopOps == 12

(* Program constants *)

\* index.ts:154, index.ts:190
MaxSize == 500
\* index.ts:194
TooBigCode == 3
\* another gRPC status code (PERMISSION_DENIED), any code other than 3
OtherCode == 7

TooBigDetails == "Transaction too big. Decrease transaction size."
OtherDetails == "Missing or insufficient permissions."

Procs == 1..MaxCalls

NoError == [code |-> 0, details |-> ""]
NoStats == [batchSize |-> -1, operationsProcessed |-> -1, operationsQueued |-> -1]
NoThreshold == -1

\* the errors a batch commit can be rejected with
StoreErrors == [code : {TooBigCode, OtherCode}, details : {TooBigDetails, OtherDetails}]

----------------------------------------------------------------------------
(* Pure helpers *)

Min(a, b) == IF a <= b THEN a ELSE b

\* Array.prototype.slice(0, n)
SliceTo(s, n) == SubSeq(s, 1, Min(n, Len(s)))

\* Array.prototype.slice(n)
SliceFrom(s, n) == SubSeq(s, n + 1, Len(s))

IsPrefix(s, t) == Len(s) <= Len(t) /\ SubSeq(t, 1, Len(s)) = s

\* index.ts:190  Math.min(Math.floor(batchSize * 1.5), 500)
GrowNoCap(b) == (3 * b) \div 2
Grow(b) == Min((3 * b) \div 2, MaxSize)

\* index.ts:198  Math.floor(batchSize / 2)
ShrinkKeeps(b) == b
Shrink(b) == b \div 2

\* index.ts:193-196  the "transaction too large" signature
IsTooBigByCodeOnly(e) == e.code = TooBigCode
IsTooBig(e) == e.code = TooBigCode /\ e.details = TooBigDetails

\* index.ts:158-162
statsQueuedIsProcessed ==
    [batchSize |-> batchSize,
     operationsProcessed |-> operationsProcessed,
     operationsQueued |-> operationsProcessed]
stats == [batchSize |-> batchSize,
          operationsProcessed |-> operationsProcessed,
          operationsQueued |-> Len(operations)]

\* index.ts:16-85  the operation constructors (the payload is not modelled)
Operation(id, name, doc) == [id |-> id, name |-> name, doc |-> doc]

\* index.ts:113-141  the effect of a committed write on the query's matches:
\* a delete removes its document, create/set/update leave the match set alone
RemovedByAnyWrite(chunk) == {chunk[i].doc : i \in 1..Len(chunk)}
RemovedBy(chunk) ==
    {chunk[i].doc : i \in {j \in 1..Len(chunk) : chunk[j].name = "delete"}}

\* the store's transaction-size ceiling: with a threshold, only chunks
\* longer than it can be rejected as too big
OversizeAllowed(chunk) == threshold = NoThreshold \/ Len(chunk) > threshold

\* the documents that still match after the writes of a committed chunk
Remaining(ds, chunk) ==
    LET gone == RemovedBy(chunk)
        Stays(d) == d \notin gone
    IN  SelectSeq(ds, Stays)

\* limitedQuery.get(): the first `limit` matching documents, in order
FirstDocs(ds, limit) == SliceTo(ds, limit)

Active(p) == pc[p] \in {"await_batch", "tick", "await_query"}
Idle == \A p \in Procs : ~Active(p)

----------------------------------------------------------------------------
(* Initial state: batcher(db, options) *)

InitBatcher ==
    /\ operations = <<>>
    /\ operationsProcessed = 0
    /\ batchSize = MaxSize
    /\ hasCallback \in BOOLEAN
    /\ callbackStats = NoStats
    /\ statsResult = NoStats
    /\ pc = [p \in Procs |-> "idle"]
    /\ kind = [p \in Procs |-> "none"]
    /\ opsToCommit = [p \in Procs |-> <<>>]
    /\ error = [p \in Procs |-> NoError]
    /\ queryLimit = [p \in Procs |-> 0]
    /\ builder = [p \in Procs |-> "none"]
    /\ enqueued = <<>>
    /\ committed = <<>>

Init ==
    /\ InitBatcher
    /\ docs \in {[i \in 1..n |-> i] : n \in 0..MaxDocs}
    /\ threshold = NoThreshold

----------------------------------------------------------------------------
(* Operations *)

\* a step in which neither stats() nor the callback is called
Quiet == statsResult' = NoStats /\ callbackStats' = NoStats

\* the locals of all() (limitedQuery, operationBuilder) end with the call
EndLocals(p) ==
    /\ queryLimit' = [queryLimit EXCEPT ![p] = 0]
    /\ builder' = [builder EXCEPT ![p] = "none"]

\* index.ts:164-166  add(operation), while fewer than `cap` were pushed
AddWithin(cap) ==
    /\ Len(enqueued) < cap
    /\ LET op == Operation(Len(enqueued) + 1, "set", 0)
       IN  /\ operations' = Append(operations, op)
           /\ enqueued' = Append(enqueued, op)
    /\ Quiet
    /\ UNCHANGED <<operationsProcessed, batchSize, hasCallback, pc, kind,
                   opsToCommit, error, queryLimit, builder, docs, threshold,
                   committed>>

Add == AddWithin(MaxOps)

\* index.ts:158-162  stats()
Stats ==
    /\ statsResult' = stats
    /\ callbackStats' = NoStats
    /\ UNCHANGED <<operations, operationsProcessed, batchSize, hasCallback,
                   pc, kind, opsToCommit, error, queryLimit, builder, docs,
                   threshold, enqueued, committed>>

\* index.ts:170-182  the synchronous head of commit(): return on an empty
\* queue, else slice the chunk, fill a batch and call batch.commit().
\* `onEmpty` is where the invocation goes when the queue is empty.
RunCommitSkipsEmptyCheck(p, ops, onEmpty) ==
    /\ opsToCommit' = [opsToCommit EXCEPT ![p] = SliceTo(ops, batchSize)]
    /\ pc' = [pc EXCEPT ![p] = "await_batch"]
RunCommitWholeQueue(p, ops, onEmpty) ==
    IF Len(ops) = 0
    THEN /\ pc' = [pc EXCEPT ![p] = onEmpty]
         /\ opsToCommit' = [opsToCommit EXCEPT ![p] = <<>>]
    ELSE /\ opsToCommit' = [opsToCommit EXCEPT ![p] = ops]
         /\ pc' = [pc EXCEPT ![p] = "await_batch"]
RunCommit(p, ops, onEmpty) ==
    IF Len(ops) = 0
    THEN /\ pc' = [pc EXCEPT ![p] = onEmpty]
         /\ opsToCommit' = [opsToCommit EXCEPT ![p] = <<>>]
    ELSE /\ opsToCommit' = [opsToCommit EXCEPT ![p] = SliceTo(ops, batchSize)]
         /\ pc' = [pc EXCEPT ![p] = "await_batch"]

\* index.ts:168-182  a caller invokes commit()
CommitCall(p) ==
    /\ ~Active(p)
    /\ kind' = [kind EXCEPT ![p] = "commit"]
    /\ error' = [error EXCEPT ![p] = NoError]
    /\ RunCommit(p, operations, "returned")
    /\ Quiet
    /\ UNCHANGED <<operations, operationsProcessed, batchSize, hasCallback,
                   queryLimit, builder, docs, threshold, enqueued, committed>>

\* index.ts:182-191  batch.commit() resolved: count and remove the chunk,
\* call the callback, grow the batch size, schedule the next commit()
OnCommittedCallbackAfterGrowth(p) ==
    /\ operationsProcessed' = operationsProcessed + Len(opsToCommit[p])
    /\ operations' = SliceFrom(operations, Len(opsToCommit[p]))
    /\ batchSize' = Grow(batchSize)
    /\ callbackStats' =
         IF hasCallback
         THEN [batchSize |-> batchSize',
               operationsProcessed |-> operationsProcessed',
               operationsQueued |-> Len(operations')]
         ELSE NoStats
OnCommittedClearsQueue(p) ==
    /\ operationsProcessed' = operationsProcessed + Len(opsToCommit[p])
    /\ operations' = <<>>
    /\ callbackStats' =
         IF hasCallback
         THEN [batchSize |-> batchSize,
               operationsProcessed |-> operationsProcessed',
               operationsQueued |-> Len(operations')]
         ELSE NoStats
    /\ batchSize' = Grow(batchSize)
OnCommittedDropsOneMore(p) ==
    /\ operationsProcessed' = operationsProcessed + Len(opsToCommit[p])
    /\ operations' = SliceFrom(operations, Len(opsToCommit[p]) + 1)
    /\ callbackStats' =
         IF hasCallback
         THEN [batchSize |-> batchSize,
               operationsProcessed |-> operationsProcessed',
               operationsQueued |-> Len(operations')]
         ELSE NoStats
    /\ batchSize' = Grow(batchSize)
OnCommitted(p) ==
    /\ operationsProcessed' = operationsProcessed + Len(opsToCommit[p])
    /\ operations' = SliceFrom(operations, Len(opsToCommit[p]))
    /\ callbackStats' =
         IF hasCallback
         THEN [batchSize |-> batchSize,
               operationsProcessed |-> operationsProcessed',
               operationsQueued |-> Len(operations')]
         ELSE NoStats
    /\ batchSize' = Grow(batchSize)

BatchCommitted(p) ==
    /\ pc[p] = "await_batch"
    /\ committed' = committed \o opsToCommit[p]
    /\ docs' = Remaining(docs, opsToCommit[p])
    /\ OnCommitted(p)
    /\ pc' = [pc EXCEPT ![p] = "tick"]
    /\ opsToCommit' = [opsToCommit EXCEPT ![p] = <<>>]
    /\ error' = [error EXCEPT ![p] = NoError]
    /\ statsResult' = NoStats
    /\ UNCHANGED <<hasCallback, kind, queryLimit, builder, threshold,
                   enqueued>>

\* index.ts:192-202  the catch block: halve and retry on "too big",
\* rethrow anything else
OnErrorDropsChunk(p, e) ==
    IF IsTooBig(e)
    THEN /\ batchSize' = Shrink(batchSize)
         /\ pc' = [pc EXCEPT ![p] = "tick"]
         /\ UNCHANGED operations
    ELSE /\ pc' = [pc EXCEPT ![p] = "thrown"]
         /\ operations' = SliceFrom(operations, Len(opsToCommit[p]))
         /\ UNCHANGED batchSize
OnError(p, e) ==
    IF IsTooBig(e)
    THEN /\ batchSize' = Shrink(batchSize)
         /\ pc' = [pc EXCEPT ![p] = "tick"]
         /\ UNCHANGED operations
    ELSE /\ pc' = [pc EXCEPT ![p] = "thrown"]
         /\ UNCHANGED <<batchSize, operations>>

\* batch.commit() rejected with e.  A retried chunk stays in opsToCommit
\* until the retry slices the next one; a thrown error ends the invocation.
BatchRejected(p, e) ==
    /\ pc[p] = "await_batch"
    /\ IsTooBig(e) => OversizeAllowed(opsToCommit[p])
    /\ OnError(p, e)
    /\ error' = [error EXCEPT ![p] = e]
    /\ IF pc'[p] = "thrown"
       THEN /\ opsToCommit' = [opsToCommit EXCEPT ![p] = <<>>]
            /\ EndLocals(p)
       ELSE UNCHANGED <<opsToCommit, queryLimit, builder>>
    /\ Quiet
    /\ UNCHANGED <<operationsProcessed, hasCallback, kind, docs, threshold,
                   enqueued, committed>>

\* the store answers "Transaction too big"
BatchTooBig(p) ==
    \E e \in {x \in StoreErrors : IsTooBig(x)} : BatchRejected(p, e)

\* the store answers with any other error
BatchFailed(p) ==
    \E e \in {x \in StoreErrors : ~IsTooBig(x)} : BatchRejected(p, e)

\* index.ts:143-147, 191, 199  process.nextTick runs the recursive commit();
\* when it finds the queue empty the whole chain resolves: commit() returns,
\* all() goes on to index.ts:215 and fetches the next page
CommitTick(p) ==
    /\ pc[p] = "tick"
    /\ RunCommit(p, operations,
                 IF kind[p] = "all" THEN "await_query" ELSE "returned")
    /\ Quiet
    /\ UNCHANGED <<operations, operationsProcessed, batchSize, hasCallback,
                   kind, error, queryLimit, builder, docs, threshold,
                   enqueued, committed>>

\* index.ts:213  result.docs.forEach((doc) => add(operationBuilder(doc.ref)))
BuildOperations(result, name, firstId) ==
    [i \in 1..Len(result) |-> Operation(firstId + i - 1, name, result[i])]

\* index.ts:209  query.limit(batchSize)
LimitOfAll(b) == b

\* index.ts:205-210  a caller invokes all(query, operationBuilder): the
\* query is limited to the batch size of this moment and fetched
AllCallWith(p, name) ==
    /\ ~Active(p)
    /\ builder' = [builder EXCEPT ![p] = name]
    /\ kind' = [kind EXCEPT ![p] = "all"]
    /\ error' = [error EXCEPT ![p] = NoError]
    /\ queryLimit' = [queryLimit EXCEPT ![p] = LimitOfAll(batchSize)]
    /\ pc' = [pc EXCEPT ![p] = "await_query"]
    /\ Quiet
    /\ UNCHANGED <<operations, operationsProcessed, batchSize, hasCallback,
                   opsToCommit, docs, threshold, enqueued, committed>>

\* the builder makes deletes (the documents leave the query's matches) or
\* updates (they stay)
AllCall(p) == \E name \in {"delete", "update"} : AllCallWith(p, name)

\* index.ts:210, 215  limitedQuery.get(): the first documents that match,
\* at most as many as the limit limitedQuery was built with
PageUnlimited(p) == docs
Page(p) == FirstDocs(docs, queryLimit[p])

\* index.ts:210-215  limitedQuery.get() resolved: an empty page ends all(),
\* a page is turned into operations, pushed, and commit() is called
QueryReplyWithin(p, cap) ==
    /\ pc[p] = "await_query"
    /\ LET result == Page(p)
           built == BuildOperations(result, builder[p], Len(enqueued) + 1)
       IN  IF Len(result) = 0
           THEN /\ pc' = [pc EXCEPT ![p] = "returned"]
                /\ EndLocals(p)
                /\ UNCHANGED <<operations, enqueued, opsToCommit>>
           ELSE /\ Len(enqueued) + Len(result) <= cap
                /\ operations' = operations \o built
                /\ enqueued' = enqueued \o built
                /\ RunCommit(p, operations', "await_query")
                /\ UNCHANGED <<queryLimit, builder>>
    /\ Quiet
    /\ UNCHANGED <<operationsProcessed, batchSize, hasCallback, kind, error,
                   docs, threshold, committed>>

QueryReply(p) == QueryReplyWithin(p, MaxOps)

\* index.ts:210, 215  limitedQuery.get() rejected: all() throws
QueryFailed(p) ==
    /\ pc[p] = "await_query"
    /\ \E e \in {x \in StoreErrors : ~IsTooBig(x)} :
           error' = [error EXCEPT ![p] = e]
    /\ pc' = [pc EXCEPT ![p] = "thrown"]
    /\ EndLocals(p)
    /\ Quiet
    /\ UNCHANGED <<operations, operationsProcessed, batchSize, hasCallback,
                   kind, opsToCommit, docs, threshold, enqueued, committed>>

----------------------------------------------------------------------------
(* Calls made one at a time against a store that may answer anything *)

Next ==
    \/ Idle /\ Add
    \/ Stats
    \/ Idle /\ CommitCall(1)
    \/ Idle /\ AllCall(1)
    \/ BatchCommitted(1)
    \/ BatchTooBig(1)
    \/ BatchFailed(1)
    \/ CommitTick(1)
    \/ QueryReply(1)
    \/ QueryFailed(1)

Spec == Init /\ [][Next]_vars

----------------------------------------------------------------------------
(* commit() against a store that raises no fatal error and rejects as too  *)
(* big only chunks longer than its threshold.  The store answers every     *)
(* batch and process.nextTick runs every scheduled callback.               *)

InitThreshold ==
    /\ InitBatcher
    /\ docs = <<>>
    /\ threshold \in 1..MaxThreshold

NextThreshold ==
    \/ Idle /\ Add
    \/ Stats
    \/ Idle /\ CommitCall(1)
    \/ BatchCommitted(1)
    \/ BatchTooBig(1)
    \/ CommitTick(1)

SpecThreshold ==
    /\ InitThreshold
    /\ [][NextThreshold]_vars
    /\ WF_vars(BatchCommitted(1) \/ BatchTooBig(1))
    /\ WF_vars(CommitTick(1))

----------------------------------------------------------------------------
(* all() with a delete builder over up to MaxDrainRounds full pages and a  *)
(* partial one, against a store that always succeeds                       *)

DrainSizes ==
    {k * MaxSize + r : k \in 0..MaxDrainRounds, r \in {0, 1, 337, 499}}

InitDrain ==
    /\ InitBatcher
    /\ docs \in {[i \in 1..n |-> i] : n \in DrainSizes}
    /\ threshold = NoThreshold

NextDrain ==
    \/ Stats
    \/ Idle /\ AllCallWith(1, "delete")
    \/ QueryReplyWithin(1, Len(enqueued) + Len(docs))
    \/ BatchCommitted(1)
    \/ CommitTick(1)

SpecDrain == InitDrain /\ [][NextDrain]_vars

----------------------------------------------------------------------------
(* all() with a builder whose writes leave the documents matching, over a  *)
(* query that matches at least one document, against a store that always   *)
(* succeeds.  The run is followed until MaxLoopOps operations were built.  *)

InitLoop ==
    /\ InitBatcher
    /\ docs \in {[i \in 1..n |-> i] : n \in 1..MaxDocs}
    /\ threshold = NoThreshold

NextLoop ==
    \/ Stats
    \/ Idle /\ AllCallWith(1, "update")
    \/ QueryReplyWithin(1, MaxLoopOps)
    \/ BatchCommitted(1)
    \/ CommitTick(1)

SpecLoop == InitLoop /\ [][NextLoop]_vars

----------------------------------------------------------------------------
(* commit() called again while an earlier commit() is still running: up to *)
(* MaxCalls invocations share operations, operationsProcessed, batchSize   *)

InitOverlap ==
    /\ InitBatcher
    /\ docs = <<>>
    /\ threshold = NoThreshold

NextOverlap ==
    \/ Idle /\ Add
    \/ \E p \in Procs : CommitCall(p)
    \/ \E p \in Procs : BatchCommitted(p)
    \/ \E p \in Procs : BatchTooBig(p)
    \/ \E p \in Procs : BatchFailed(p)
    \/ \E p \in Procs : CommitTick(p)

SpecOverlap == InitOverlap /\ [][NextOverlap]_vars

----------------------------------------------------------------------------
(* add() at any moment of a running commit(), also between the slice of a  *)
(* chunk and the store's reply                                             *)

InitInFlight ==
    /\ InitBatcher
    /\ docs = <<>>
    /\ threshold = NoThreshold

NextInFlight ==
    \/ Add
    \/ Stats
    \/ Idle /\ CommitCall(1)
    \/ BatchCommitted(1)
    \/ BatchTooBig(1)
    \/ BatchFailed(1)
    \/ CommitTick(1)

SpecInFlight == InitInFlight /\ [][NextInFlight]_vars

----------------------------------------------------------------------------
(* commit() of long queues: 600 or 1200 operations are queued when commit() *)
(* is called; the store never fails fatally and either takes every chunk    *)
(* (threshold 500) or may reject chunks of more than 400 operations         *)

BulkQueues == {600, 1200}

InitBulk ==
    /\ InitBatcher
    /\ docs = <<>>
    /\ threshold \in {400, MaxSize}

NextBulk ==
    \/ Idle /\ AddWithin(MaxBulkOps)
    \/ Idle /\ Len(operations) \in BulkQueues /\ CommitCall(1)
    \/ BatchCommitted(1)
    \/ BatchTooBig(1)
    \/ CommitTick(1)

SpecBulk == InitBulk /\ [][NextBulk]_vars

----------------------------------------------------------------------------
(* Steps of invocation 1, told apart by what they change *)

\* commit() resolves
CommitReturns ==
    kind[1] = "commit" /\ pc[1] # "returned" /\ pc'[1] = "returned"

\* batch.commit() resolved
BatchSucceeds ==
    pc[1] = "await_batch" /\ pc'[1] = "tick" /\ error'[1] = NoError

\* batch.commit() rejected with the "too big" signature
BatchIsTooBig ==
    pc[1] = "await_batch" /\ pc'[1] # "await_batch" /\ IsTooBig(error'[1])

\* batch.commit() rejected with anything else
BatchFailsFatally ==
    /\ pc[1] = "await_batch" /\ pc'[1] # "await_batch"
    /\ error'[1] # NoError /\ ~IsTooBig(error'[1])

\* the retry after a "too big" rejection slices its chunk
RetryAfterTooBig ==
    pc[1] = "tick" /\ IsTooBig(error[1]) /\ pc'[1] # "tick"

\* a query is sent to the store
QueryIssued == pc[1] # "await_query" /\ pc'[1] = "await_query"

----------------------------------------------------------------------------
(* Claims *)

\* C1: when a commit() returns (no fatal error ended it, any number of
\* "too big" rejections in between), the operations of the successfully
\* committed batches, concatenated in commit order, are exactly the
\* operations enqueued, each once and in insertion order.
C1_CommitDeliversQueueInOrder ==
    [][CommitReturns => committed' = enqueued']_vars

\* C1 witness: a commit() has returned after delivering every operation in
\* more than one batch, with a "too big" rejection on the way.
C1_Witness ==
    /\ kind[1] = "commit" /\ pc[1] = "returned"
    /\ Len(enqueued) = MaxOps /\ committed = enqueued
    /\ batchSize = 1

\* C3 (as amended): a "too big" rejection removes nothing from the queue,
\* leaves operationsProcessed alone and halves the batch size; the retry
\* submits the first min(batchSize, queue length) operations: a prefix of
\* the failed chunk, never longer than it, at most floor(previousSize/2)
\* long, and strictly shorter whenever the failed chunk was longer than
\* floor(previousSize/2).
C3_RetryIsPrefixOfFailedChunk ==
    [][/\ BatchIsTooBig =>
            /\ operations' = operations
            /\ operationsProcessed' = operationsProcessed
            /\ committed' = committed
            /\ batchSize' = batchSize \div 2
            /\ pc'[1] = "tick"
       /\ RetryAfterTooBig =>
            /\ pc'[1] = "await_batch"
            /\ Len(opsToCommit'[1]) = Min(batchSize, Len(operations))
            /\ Len(opsToCommit'[1]) <= Len(opsToCommit[1])
            /\ Len(opsToCommit'[1]) <= batchSize
            /\ IsPrefix(opsToCommit'[1], opsToCommit[1])
            /\ IsPrefix(opsToCommit'[1], operations')
            /\ (Len(opsToCommit[1]) > batchSize
                  => Len(opsToCommit'[1]) < Len(opsToCommit[1]))
      ]_vars

\* C3 witness: a retry in flight with a chunk strictly shorter than the
\* queue, after a rejection of a longer chunk.
C3_Witness ==
    /\ pc[1] = "await_batch" /\ IsTooBig(error[1])
    /\ batchSize = 1 /\ Len(opsToCommit[1]) = 1 /\ Len(operations) = 3

\* C3 as stated: the chunk retried after a "too big" rejection is strictly
\* smaller than the failed chunk.
C3_RetryIsStrictlySmaller ==
    [][RetryAfterTooBig =>
          /\ Len(opsToCommit'[1]) < Len(opsToCommit[1])
          /\ Len(opsToCommit'[1]) <= batchSize
          /\ IsPrefix(opsToCommit'[1], opsToCommit[1])
      ]_vars

\* C4: a batch commit rejected with an error that is not "too big" ends the
\* invocation with that error: no retry is scheduled and no batch is in
\* flight, the counter keeps the chunks committed before, the queue is
\* untouched and starts with the failed chunk, the batch size is unchanged.
C4_FatalErrorPropagates ==
    [][BatchFailsFatally =>
          /\ pc'[1] = "thrown"
          /\ error'[1] \in StoreErrors
          /\ operations' = operations
          /\ IsPrefix(opsToCommit[1], operations')
          /\ operationsProcessed' = operationsProcessed
          /\ operationsProcessed' = Len(committed')
          /\ committed' = committed
          /\ committed' \o operations' = enqueued'
          /\ batchSize' = batchSize
      ]_vars

\* C4 witness: commit() has thrown on a later chunk, after a first chunk
\* was committed, with operations left in the queue.
C4_Witness ==
    /\ kind[1] = "commit" /\ pc[1] = "thrown"
    /\ error[1] # NoError /\ ~IsTooBig(error[1])
    /\ operationsProcessed >= 1 /\ Len(operations) >= 2

\* C5 as stated: the batch size is always between 1 and 500.
C5_BatchSizeInRange == 1 <= batchSize /\ batchSize <= MaxSize

\* C6 as stated: with the batch size at 0 and operations queued, commit()
\* has signalled a fatal error: no batch is in flight and no retry scheduled.
C6_ZeroSizeIsFatal ==
    (batchSize = 0 /\ operations # <<>>) => pc[1] \notin {"await_batch", "tick"}

\* C7 as stated: every successful commit at a size below 500 strictly
\* increases the batch size.
C7_SuccessGrowsBelowMax ==
    [][(BatchSucceeds /\ batchSize < MaxSize) => batchSize' > batchSize]_vars

\* C8: the batch size changes only at batch outcomes: a success sets it to
\* min(floor(old * 1.5), 500) whatever the chunk length, a "too big"
\* rejection to floor(old / 2), every other step leaves it alone; it never
\* exceeds 500 and only a success can increase it.
C8_BatchSizeRule ==
    [][/\ BatchSucceeds =>
            batchSize' = (IF (3 * batchSize) \div 2 < 500
                          THEN (3 * batchSize) \div 2 ELSE 500)
       /\ BatchIsTooBig => 2 * batchSize' <= batchSize /\ batchSize < 2 * batchSize' + 2
       /\ ~(BatchSucceeds \/ BatchIsTooBig) => batchSize' = batchSize
       /\ batchSize' <= 500
       /\ batchSize' > batchSize => BatchSucceeds
      ]_vars

\* C8 witness: a chunk shorter than the batch size (3 operations at size
\* 250) was committed and the size grew to 375.
C8_Witness ==
    /\ pc[1] = "tick" /\ error[1] = NoError
    /\ callbackStats # NoStats /\ callbackStats.batchSize = 250
    /\ callbackStats.operationsQueued = 0
    /\ operationsProcessed = 3 /\ batchSize = 375

\* C10 as stated: every query all() sends is limited to the batch size at
\* the moment it is sent.
C10_QueryLimitedToCurrentSize ==
    [][QueryIssued => queryLimit'[1] = batchSize']_vars

\* C2: against a store that raises no fatal error and rejects as too big
\* only chunks longer than a threshold K >= 1, a commit() that has a batch
\* in flight or a retry scheduled eventually returns; and whenever commit()
\* returns the queue is empty and operationsProcessed equals the number of
\* operations enqueued.
C2_CommitDrains ==
    /\ [][CommitReturns =>
            /\ operations' = <<>>
            /\ operationsProcessed' = Len(enqueued')]_vars
    /\ (pc[1] \in {"await_batch", "tick"}) ~> (pc[1] = "returned")

\* C2 witness: commit() has returned with every operation processed, after
\* a rejection by the threshold store had shrunk the batch size.
C2_Witness ==
    /\ kind[1] = "commit" /\ pc[1] = "returned"
    /\ threshold >= 1 /\ batchSize < MaxSize
    /\ operations = <<>> /\ operationsProcessed = MaxOps

\* C9: with a delete builder, a store that always succeeds and an empty
\* queue, every page of all() holds the first min(500, remaining) matching
\* documents, one operation per document in order, and is committed as one
\* chunk that removes exactly those documents from the matches; a query
\* with no result, and only that, makes all() return, with the queue empty;
\* every step keeps operationsProcessed + remaining matches constant, so
\* on return operationsProcessed has grown by the N documents matched.
C9_AllDrainsQuery ==
    [][/\ (pc[1] = "await_query" /\ pc'[1] = "await_batch") =>
            /\ Len(opsToCommit'[1]) = (IF Len(docs) < 500 THEN Len(docs) ELSE 500)
            /\ operations' = opsToCommit'[1]
            /\ \A i \in 1..Len(opsToCommit'[1]) :
                   /\ opsToCommit'[1][i].doc = docs[i]
                   /\ opsToCommit'[1][i].name = "delete"
       /\ BatchSucceeds =>
            /\ docs' = SubSeq(docs, Len(opsToCommit[1]) + 1, Len(docs))
            /\ operations' = <<>>
       /\ (pc[1] = "await_query" /\ pc'[1] # "await_query") =>
            (pc'[1] = "returned" <=> docs = <<>>)
       /\ (Active(1) /\ pc'[1] = "returned") =>
            /\ pc[1] = "await_query"
            /\ operations' = <<>>
            /\ docs' = <<>>
            /\ operationsProcessed' = Len(enqueued')
            /\ committed' = enqueued'
       /\ operationsProcessed' + Len(docs') = operationsProcessed + Len(docs)
      ]_vars

\* C9 witness: the third page of 1337 matching documents, 337 operations,
\* is in flight after two chunks of 500.
C9_Witness ==
    /\ kind[1] = "all" /\ pc[1] = "await_batch"
    /\ operationsProcessed = 1000 /\ Len(opsToCommit[1]) = 337
    /\ Len(docs) = 337 /\ batchSize = 500

\* C11: onBatchCommited is called in a step exactly when the option is set
\* and the step is a successful batch commit (never at a rejection, an
\* empty commit or any other step); the stats it receives count the chunk
\* as processed, no longer as queued, and carry the batch size the chunk
\* was sliced with, before the growth.
C11_CallbackOncePerCommittedChunk ==
    [][/\ (callbackStats' # NoStats) <=> (hasCallback /\ BatchSucceeds)
       /\ (hasCallback /\ BatchSucceeds) =>
            /\ callbackStats'.operationsProcessed
                 = operationsProcessed + Len(opsToCommit[1])
            /\ callbackStats'.operationsQueued
                 = Len(operations) - Len(opsToCommit[1])
            /\ callbackStats'.batchSize = batchSize
            /\ callbackStats'.operationsProcessed = operationsProcessed'
            /\ callbackStats'.operationsQueued = Len(operations')
      ]_vars

\* C11 witness: the callback has just been told of a chunk of 3 operations
\* committed at batch size 3, which then grew to 4.
C11_Witness ==
    /\ hasCallback /\ pc[1] = "tick"
    /\ callbackStats = [batchSize |-> 3, operationsProcessed |-> 3,
                        operationsQueued |-> 0]
    /\ batchSize = 4

\* C12: a stats() call returns the batch size, the processed counter and
\* the queue length of the moment and changes nothing; a snapshot taken by
\* the last step equals what the next stats() call returns.
C12_StatsIsPureSnapshot ==
    [][/\ statsResult' # NoStats =>
            /\ statsResult'.batchSize = batchSize
            /\ statsResult'.operationsProcessed = operationsProcessed
            /\ statsResult'.operationsQueued = Len(operations)
            /\ UNCHANGED <<operations, operationsProcessed, batchSize, pc,
                           kind, opsToCommit, error, queryLimit, builder,
                           docs, enqueued, committed>>
       /\ (statsResult # NoStats /\ statsResult' # NoStats) =>
            statsResult' = statsResult
      ]_vars

\* C12 witness: stats() was called with one operation processed and two
\* still queued, at a batch size shrunk to 1.
C12_Witness ==
    statsResult = [batchSize |-> 1, operationsProcessed |-> 1,
                   operationsQueued |-> 2]

\* C13: the chunk of a batch in flight is the first min(batchSize, queue
\* length) operations of the queue, in queue order, and they are still at
\* the head of the queue while the store has not replied.
C13_ChunkIsQueueHead ==
    pc[1] = "await_batch" =>
        /\ Len(opsToCommit[1]) =
             (IF batchSize < Len(operations) THEN batchSize ELSE Len(operations))
        /\ \A i \in 1..Len(opsToCommit[1]) : opsToCommit[1][i] = operations[i]

\* C13 witness: of 600 operations a chunk of 500 was rejected, 250 were
\* committed at size 250, and the remaining 350 are in flight as one chunk
\* at batch size 375.
C13_Witness ==
    /\ pc[1] = "await_batch" /\ Len(enqueued) = 600
    /\ operationsProcessed = 250 /\ batchSize = 375
    /\ Len(opsToCommit[1]) = 350 /\ Len(operations) = 350

\* a caller's commit() call has run its synchronous head
CommitCalled ==
    /\ ~Active(1) /\ kind'[1] = "commit"
    /\ <<pc[1], kind[1], error[1]>> # <<pc'[1], kind'[1], error'[1]>>

\* C14: a rejected batch commit is retried with a halved batch size only
\* when the error has code 3 and the exact "Transaction too big" details;
\* with one of the two or neither, commit() throws that error, the batch
\* size is unchanged and no retry is scheduled.
C14_OnlyExactSignatureIsRetried ==
    [][(pc[1] = "await_batch" /\ pc'[1] # "await_batch" /\ error'[1] # NoError) =>
          IF /\ error'[1].code = 3
             /\ error'[1].details = "Transaction too big. Decrease transaction size."
          THEN pc'[1] = "tick" /\ batchSize' = batchSize \div 2
          ELSE /\ pc'[1] = "thrown"
               /\ batchSize' = batchSize
               /\ operations' = operations
      ]_vars

\* C14 witness: commit() has thrown an error that has code 3 but other
\* details.
C14_Witness ==
    /\ kind[1] = "commit" /\ pc[1] = "thrown"
    /\ error[1].code = 3 /\ error[1].details # TooBigDetails
    /\ operations # <<>>

\* C15: a commit() called with an empty queue returns in the same step: no
\* chunk is sliced, no batch is in flight, the callback is not called, and
\* batch size, counter, queue and store are as before.
C15_EmptyCommitIsNoOp ==
    [][(CommitCalled /\ operations = <<>>) =>
          /\ pc'[1] = "returned"
          /\ opsToCommit'[1] = <<>>
          /\ callbackStats' = NoStats
          /\ UNCHANGED <<batchSize, operationsProcessed, operations,
                         committed, docs>>
      ]_vars

\* C15 witness: commit() has returned on a batcher on which nothing was
\* ever enqueued; its state is the one construction left.
C15_Witness ==
    /\ kind[1] = "commit" /\ pc[1] = "returned"
    /\ enqueued = <<>> /\ operationsProcessed = 0 /\ batchSize = MaxSize

\* C16: all() with a builder that does not remove the documents from the
\* query's result, over a query with at least one match and a store that
\* always succeeds, never returns and never throws: the matches stay as
\* they are, every page is the same non-empty page, and each reply
\* enqueues one more operation per fetched document and commits again.
C16_NonRemovingAllNeverReturns ==
    [][/\ docs' = docs
       /\ kind'[1] = "all" => pc'[1] \notin {"returned", "thrown"}
       /\ (pc[1] = "await_query" /\ pc'[1] # "await_query") =>
             /\ pc'[1] = "await_batch"
             /\ Len(enqueued') = Len(enqueued) + Len(docs)
             /\ opsToCommit'[1] = operations'
             /\ \A i \in 1..Len(docs) :
                    operations'[Len(operations) + i].doc = docs[i]
      ]_vars

\* C16 witness: all() is waiting for the batch of its third round over two
\* matching documents; the first two rounds are committed and both
\* documents still match.
C16_Witness ==
    /\ kind[1] = "all" /\ builder[1] = "update" /\ pc[1] = "await_batch"
    /\ Len(docs) = 2
    /\ operationsProcessed = 4
    /\ Len(enqueued) = 6

\* the invocations whose batch.commit() the store has not answered yet
Outstanding == {p \in Procs : pc[p] = "await_batch"}

\* the operations the store has committed, and those still queued
CommittedIds == {committed[i].id : i \in 1..Len(committed)}
QueuedIds == {operations[i].id : i \in 1..Len(operations)}

\* C17: with commit() called again while an earlier commit() awaits the
\* store, at most one batch commit is outstanding, no operation is
\* committed twice, and every operation that left the queue was committed.
C17_OverlappingCommitsAreSafe ==
    /\ Cardinality(Outstanding) <= 1
    /\ Cardinality(CommittedIds) = Len(committed)
    /\ \A i \in 1..Len(enqueued) :
           enqueued[i].id \in CommittedIds \cup QueuedIds

\* add() ran while the batch of invocation 1 was awaiting the store
AddInFlight ==
    /\ pc[1] = "await_batch" /\ pc'[1] = "await_batch"
    /\ Len(enqueued') = Len(enqueued) + 1

\* C18: an add() while a batch commit is in flight is not lost or
\* reordered: the operation goes behind every queued one and leaves the
\* chunk in flight alone; at every moment the committed operations
\* followed by the queue are the enqueued operations in their order, the
\* chunk in flight is the head of the queue; and a commit() that returns
\* has committed every operation enqueued until then.
C18_AddInFlightIsKept ==
    [][/\ AddInFlight =>
            /\ operations' = Append(operations, enqueued'[Len(enqueued')])
            /\ opsToCommit' = opsToCommit
       /\ committed' \o operations' = enqueued'
       /\ pc'[1] = "await_batch" => IsPrefix(opsToCommit'[1], operations')
       /\ CommitReturns => committed' = enqueued' /\ operations' = <<>>
      ]_vars

\* C18 witness: a chunk of one operation is in flight at batch size 500
\* while three operations are queued: the last two were added after the
\* chunk was sliced and stand behind it in the order they were added.
C18_Witness ==
    /\ kind[1] = "commit" /\ pc[1] = "await_batch"
    /\ batchSize = MaxSize
    /\ Len(opsToCommit[1]) = 1
    /\ Len(operations) = 3
    /\ operations = enqueued

\* C19: with calls made one at a time, operationsProcessed never
\* decreases, is the summed length of the chunks the store committed, and
\* with the queue length adds up to the number of operations ever
\* enqueued, whatever the store answered.
C19_OperationsAreConserved ==
    [][/\ operationsProcessed' >= operationsProcessed
       /\ operationsProcessed' = Len(committed')
       /\ operationsProcessed' + Len(operations') = Len(enqueued')
      ]_vars

\* C19 witness: all() has thrown after a committed chunk, an oversize
\* rejection and a fatal one; one operation is processed, two are queued.
C19_Witness ==
    /\ kind[1] = "all" /\ pc[1] = "thrown"
    /\ batchSize < MaxSize
    /\ operationsProcessed = 1
    /\ Len(operations) = 2
    /\ Len(enqueued) = 3

\* all() resolves
AllReturns ==
    kind[1] = "all" /\ Active(1) /\ pc'[1] = "returned"

\* C20: whenever all() returns successfully the queue is empty, also when
\* operations were queued with add() before the call and when the query
\* matches no document.
C20_AllReturnsWithEmptyQueue ==
    [][AllReturns => operations' = <<>>]_vars

====
